---- MODULE Spec2Model ----
(***************************************************************************)
(* Model of src/http_api_server.py: a FastAPI application exposing two     *)
(* business endpoints (POST /api/orders/create, POST /api/orders/status)   *)
(* and two static endpoints (GET /, GET /health).  Each business handler   *)
(* is a coroutine with one suspension point, the await on the delegated    *)
(* tool (create_order / get_order_status).  A request is therefore         *)
(* modelled by two steps: the arrival (pydantic validation of the body and *)
(* the handler body up to the await) and the resumption (json.loads, the   *)
(* construction of OrderResponse, the except clause).                      *)
(***************************************************************************)
EXTENDS Integers, Sequences, FiniteSets, TLC

VARIABLES pc, endpoint, raw, request, calls, outcome, response

vars == <<pc, endpoint, raw, request, calls, outcome, response>>

\* Number of request tasks that may be in flight on the event loop at once.
NumRequests == 2

Requests == 1..NumRequests

-----------------------------------------------------------------------------
(* Values.  A Python/JSON scalar is a tagged record; a float is kept in    *)
(* hundredths (9.99 is F(999)) so that its sign and equality are exact.    *)

Absent == [t |-> "absent", n |-> 0, s |-> ""]
Null == [t |-> "null", n |-> 0, s |-> ""]
I(n) == [t |-> "int", n |-> n, s |-> ""]
F(n) == [t |-> "float", n |-> n, s |-> ""]
S(s) == [t |-> "str", n |-> 0, s |-> s]
B(b) == [t |-> "bool", n |-> IF b THEN 1 ELSE 0, s |-> ""]

\* The numeric strings among the modelled inputs, and int() of each.
NumericStrings == {"2", "999"}

IntOfString(s) == IF s = "2" THEN 2 ELSE 999

\* A pydantic validation result.
Valid(v) == [ok |-> TRUE, value |-> v]

Invalid == [ok |-> FALSE, value |-> Absent]

-----------------------------------------------------------------------------
(* Request models (pydantic BaseModel classes, validated in lax mode by    *)
(* the framework before the handler is called).                            *)

\* A field annotated int: an int is taken as is, a numeric string is
\* converted, anything else fails.
int_field(v) ==
    IF v.t = "int" THEN Valid(v)
    ELSE IF v.t = "str" /\ v.s \in NumericStrings THEN Valid(I(IntOfString(v.s)))
    ELSE Invalid

\* A field annotated str: only a string is accepted.
str_field(v) == IF v.t = "str" THEN Valid(v) ELSE Invalid

\* A field annotated float: a float is taken as is, an int or a numeric
\* string is converted, anything else fails.
float_field(v) ==
    IF v.t = "float" THEN Valid(v)
    ELSE IF v.t = "int" THEN Valid(F(v.n * 100))
    ELSE IF v.t = "str" /\ v.s \in NumericStrings THEN Valid(F(IntOfString(v.s) * 100))
    ELSE Invalid

\* A field annotated bool: a bool is taken as is, the ints 0 and 1 are
\* converted, anything else fails.
bool_field(v) ==
    IF v.t = "bool" THEN Valid(v)
    ELSE IF v.t = "int" /\ v.n \in {0, 1} THEN Valid(B(v.n = 1))
    ELSE Invalid

\* A field with a default: the default stands in for a missing key,
\* otherwise the validated value is used.
with_default(v, default, validated) == IF v = Absent THEN Valid(default) ELSE validated

\* LineItem.model_construct(**item): defaults are filled in, nothing is
\* validated or converted.
LineItem_unvalidated(item) ==
    Valid([variant_id |-> item.variant_id, quantity |-> item.quantity,
           title |-> IF item.title = Absent THEN S("Product") ELSE item.title,
           price |-> IF item.price = Absent THEN F(0) ELSE item.price])

\* class LineItem(BaseModel)
LineItem(item) ==
    LET variant_id == int_field(item.variant_id)
        quantity == int_field(item.quantity)
        title == with_default(item.title, S("Product"), str_field(item.title))
        price == with_default(item.price, F(0), float_field(item.price))
    IN  IF variant_id.ok /\ quantity.ok /\ title.ok /\ price.ok
        THEN Valid([variant_id |-> variant_id.value, quantity |-> quantity.value,
                    title |-> title.value, price |-> price.value])
        ELSE Invalid

\* CreateOrderRequest with customer_email: Optional[str] = None.
CreateOrderRequest_optional_email(body) ==
    LET n == Len(body.line_items.items)
        items == [i \in 1..n |-> LineItem(body.line_items.items[i])]
        customer_email == with_default(body.customer_email, Null, str_field(body.customer_email))
        financial_status == with_default(body.financial_status, S("paid"), str_field(body.financial_status))
        test == with_default(body.test, B(TRUE), bool_field(body.test))
    IN  IF /\ body.line_items.t = "list"
           /\ \A i \in 1..n : items[i].ok
           /\ customer_email.ok /\ financial_status.ok /\ test.ok
        THEN Valid([line_items |-> [i \in 1..n |-> items[i].value],
                    customer_email |-> customer_email.value,
                    financial_status |-> financial_status.value,
                    test |-> test.value])
        ELSE Invalid

\* class CreateOrderRequest(BaseModel)
CreateOrderRequest(body) ==
    LET n == Len(body.line_items.items)
        items == [i \in 1..n |-> LineItem(body.line_items.items[i])]
        customer_email == str_field(body.customer_email)
        financial_status == with_default(body.financial_status, S("paid"), str_field(body.financial_status))
        test == with_default(body.test, B(TRUE), bool_field(body.test))
    IN  IF /\ body.line_items.t = "list"
           /\ \A i \in 1..n : items[i].ok
           /\ customer_email.ok /\ financial_status.ok /\ test.ok
        THEN Valid([line_items |-> [i \in 1..n |-> items[i].value],
                    customer_email |-> customer_email.value,
                    financial_status |-> financial_status.value,
                    test |-> test.value])
        ELSE Invalid

\* class GetOrderStatusRequest(BaseModel)
GetOrderStatusRequest(body) ==
    LET order_id == int_field(body.order_id)
    IN  IF order_id.ok THEN Valid([order_id |-> order_id.value]) ELSE Invalid

-----------------------------------------------------------------------------
(* JSON values.  A parsed value is [t, s, items]: t is "object", "array",  *)
(* "str", "num" or "lit"; a dict is the sequence of its [k, v] entries in  *)
(* insertion order.  A JSON text is a sequence of tokens.                  *)

Tok(k, s) == [k |-> k, s |-> s]

Text(toks) == [t |-> "str", toks |-> toks]

Object(entries) == [t |-> "object", s |-> "", items |-> entries]

Array(elements) == [t |-> "array", s |-> "", items |-> elements]

Scalar(tok) == [t |-> tok.k, s |-> tok.s, items |-> <<>>]

EmptyDict == Object(<<>>)

\* d[key] = value on a dict: a repeated key keeps its place and takes the
\* last value.
DictSet(d, key, value) ==
    IF \E i \in 1..Len(d) : d[i].k = key
    THEN [i \in 1..Len(d) |-> IF d[i].k = key THEN [k |-> key, v |-> value] ELSE d[i]]
    ELSE Append(d, [k |-> key, v |-> value])

ParseFail == [ok |-> FALSE, value |-> EmptyDict, next |-> 0]

ParseOk(value, next) == [ok |-> TRUE, value |-> value, next |-> next]

RECURSIVE ParseValue(_, _), ParseMembers(_, _, _), ParseElements(_, _, _)

\* One JSON value starting at token i.
ParseValue(toks, i) ==
    IF i > Len(toks) THEN ParseFail
    ELSE IF toks[i].k \in {"str", "num", "lit"} THEN ParseOk(Scalar(toks[i]), i + 1)
    ELSE IF toks[i].k = "{"
         THEN IF i + 1 <= Len(toks) /\ toks[i + 1].k = "}"
              THEN ParseOk(EmptyDict, i + 2)
              ELSE ParseMembers(toks, i + 1, <<>>)
    ELSE IF toks[i].k = "["
         THEN IF i + 1 <= Len(toks) /\ toks[i + 1].k = "]"
              THEN ParseOk(Array(<<>>), i + 2)
              ELSE ParseElements(toks, i + 1, <<>>)
    ELSE ParseFail

\* The members of an object from token i on: string, colon, value, then a
\* comma or the closing brace.
ParseMembers(toks, i, acc) ==
    IF i + 1 > Len(toks) \/ toks[i].k # "str" \/ toks[i + 1].k # ":" THEN ParseFail
    ELSE LET v == ParseValue(toks, i + 2)
         IN  IF ~v.ok \/ v.next > Len(toks) THEN ParseFail
             ELSE IF toks[v.next].k = "}"
                  THEN ParseOk(Object(DictSet(acc, toks[i].s, v.value)), v.next + 1)
             ELSE IF toks[v.next].k = ","
                  THEN ParseMembers(toks, v.next + 1, DictSet(acc, toks[i].s, v.value))
             ELSE ParseFail

\* The elements of an array from token i on.
ParseElements(toks, i, acc) ==
    LET v == ParseValue(toks, i)
    IN  IF ~v.ok \/ v.next > Len(toks) THEN ParseFail
        ELSE IF toks[v.next].k = "]"
             THEN ParseOk(Array(Append(acc, v.value)), v.next + 1)
        ELSE IF toks[v.next].k = ","
             THEN ParseElements(toks, v.next + 1, Append(acc, v.value))
        ELSE ParseFail

\* json.loads: the parsed value, or the exception it raises (TypeError for
\* an argument that is not a string, JSONDecodeError for malformed text or
\* text after the value).
json_loads(x) ==
    IF x.t # "str" THEN [ok |-> FALSE, value |-> EmptyDict, msg |-> "the JSON object must be str, bytes or bytearray"]
    ELSE LET v == ParseValue(x.toks, 1)
         IN  IF v.ok /\ v.next = Len(x.toks) + 1
             THEN [ok |-> TRUE, value |-> v.value, msg |-> ""]
             ELSE [ok |-> FALSE, value |-> EmptyDict, msg |-> "JSONDecodeError"]

-----------------------------------------------------------------------------
(* The handlers.                                                           *)

\* model_dump(exclude_defaults=True): a field equal to its default is left
\* out.
model_dump_exclude_defaults(item) ==
    << [k |-> "variant_id", v |-> item.variant_id],
       [k |-> "quantity", v |-> item.quantity] >>
    \o (IF item.title = S("Product") THEN <<>> ELSE << [k |-> "title", v |-> item.title] >>)
    \o (IF item.price = F(0) THEN <<>> ELSE << [k |-> "price", v |-> item.price] >>)

\* item.model_dump(): the dict of the model's fields, in declaration order.
model_dump(item) ==
    << [k |-> "variant_id", v |-> item.variant_id],
       [k |-> "quantity", v |-> item.quantity],
       [k |-> "title", v |-> item.title],
       [k |-> "price", v |-> item.price] >>

\* OrderResponse.model_construct(...): the fields are not validated.
OrderResponse_unvalidated(success, data, error) ==
    [ok |-> TRUE, value |-> [success |-> success, data |-> data, error |-> error], msg |-> ""]

\* OrderResponse(success=..., data=..., error=...): the field data is
\* annotated dict, so any other value raises a ValidationError.
OrderResponse(success, data, error) ==
    IF data.t = "object"
    THEN [ok |-> TRUE, value |-> [success |-> success, data |-> data, error |-> error],
          msg |-> ""]
    ELSE [ok |-> FALSE, value |-> [success |-> success, data |-> EmptyDict, error |-> error],
          msg |-> "1 validation error for OrderResponse"]

\* What the delegated coroutine does when it completes: it returns a value
\* or raises an exception of class cls whose str() is msg.
Returned(value) == [kind |-> "return", cls |-> "", msg |-> "", value |-> value]

Raised(cls, msg) == [kind |-> "raise", cls |-> cls, msg |-> msg, value |-> Text(<<>>)]

\* The classes matched by "except Exception"; asyncio.CancelledError,
\* KeyboardInterrupt and SystemExit derive from BaseException only.
ExceptionClasses == {"Exception"}

\* What a handler hands back to the framework.
Return(envelope) == [kind |-> "return", value |-> envelope]

Propagate(out) ==
    [kind |-> "raise", value |-> [success |-> FALSE, data |-> EmptyDict, error |-> S(out.cls)]]

\* create_order_endpoint up to its await: the arguments of create_order.
create_order_call(req) ==
    [fn |-> "create_order",
     line_items |-> [i \in 1..Len(req.line_items) |-> model_dump(req.line_items[i])],
     customer_email |-> req.customer_email,
     financial_status |-> req.financial_status,
     test |-> req.test]

\* create_order_endpoint with data=result_json: json.loads is forgotten.
create_order_endpoint_unparsed(out) ==
    IF out.kind = "raise"
    THEN IF out.cls \in ExceptionClasses
         THEN Return(OrderResponse(FALSE, EmptyDict, S(out.msg)).value)
         ELSE Propagate(out)
    ELSE LET built == OrderResponse(TRUE, [t |-> "str", s |-> "", items |-> <<>>], Null)
         IN  IF ~built.ok THEN Return(OrderResponse(FALSE, EmptyDict, S(built.msg)).value)
             ELSE Return(built.value)

\* create_order_endpoint with the return statement after the try block:
\* an exception of OrderResponse(success=True, ...) is not caught.
create_order_endpoint_return_outside_try(out) ==
    IF out.kind = "raise"
    THEN IF out.cls \in ExceptionClasses
         THEN Return(OrderResponse(FALSE, EmptyDict, S(out.msg)).value)
         ELSE Propagate(out)
    ELSE LET result == json_loads(out.value)
             built == OrderResponse(TRUE, result.value, Null)
         IN  IF ~result.ok THEN Return(OrderResponse(FALSE, EmptyDict, S(result.msg)).value)
             ELSE IF ~built.ok THEN Propagate(Raised("ValidationError", built.msg))
             ELSE Return(built.value)

\* create_order_endpoint keeping result_json in a module global: a handler
\* that resumes after another one has finished reads the other's result.
create_order_endpoint_shared_result(out) ==
    LET finished == {q \in Requests : endpoint[q] = "create" /\ pc[q] = "done"}
        seen == IF finished = {} THEN out ELSE outcome[CHOOSE q \in finished : TRUE]
    IN  IF seen.kind = "raise"
        THEN IF seen.cls \in ExceptionClasses
             THEN Return(OrderResponse(FALSE, EmptyDict, S(seen.msg)).value)
             ELSE Propagate(seen)
        ELSE LET result == json_loads(seen.value)
                 built == OrderResponse(TRUE, result.value, Null)
             IN  IF ~result.ok THEN Return(OrderResponse(FALSE, EmptyDict, S(result.msg)).value)
                 ELSE IF ~built.ok THEN Return(OrderResponse(FALSE, EmptyDict, S(built.msg)).value)
                 ELSE Return(built.value)

\* create_order_endpoint from its await on: the rest of the try block and
\* the except clause.
create_order_endpoint(out) ==
    IF out.kind = "raise"
    THEN IF out.cls \in ExceptionClasses
         THEN Return(OrderResponse(FALSE, EmptyDict, S(out.msg)).value)
         ELSE Propagate(out)
    ELSE LET result == json_loads(out.value)
             built == OrderResponse(TRUE, result.value, Null)
         IN  IF ~result.ok THEN Return(OrderResponse(FALSE, EmptyDict, S(result.msg)).value)
             ELSE IF ~built.ok THEN Return(OrderResponse(FALSE, EmptyDict, S(built.msg)).value)
             ELSE Return(built.value)

\* get_order_status_endpoint passing the order id of its docstring example.
get_order_status_call_example_id(req) == [fn |-> "get_order_status", order_id |-> I(12345)]

\* get_order_status_endpoint up to its await: the arguments of
\* get_order_status.
get_order_status_call(req) == [fn |-> "get_order_status", order_id |-> req.order_id]

\* get_order_status_endpoint whose except clause raises
\* HTTPException(status_code=500, detail=str(e)).
get_order_status_endpoint_http_exception(out) ==
    IF out.kind = "raise"
    THEN Propagate(out)
    ELSE LET result == json_loads(out.value)
             built == OrderResponse(TRUE, result.value, Null)
         IN  IF ~result.ok THEN Propagate(Raised("HTTPException", result.msg))
             ELSE IF ~built.ok THEN Propagate(Raised("HTTPException", built.msg))
             ELSE Return(built.value)

\* get_order_status_endpoint from its await on.
get_order_status_endpoint(out) ==
    IF out.kind = "raise"
    THEN IF out.cls \in ExceptionClasses
         THEN Return(OrderResponse(FALSE, EmptyDict, S(out.msg)).value)
         ELSE Propagate(out)
    ELSE LET result == json_loads(out.value)
             built == OrderResponse(TRUE, result.value, Null)
         IN  IF ~result.ok THEN Return(OrderResponse(FALSE, EmptyDict, S(result.msg)).value)
             ELSE IF ~built.ok THEN Return(OrderResponse(FALSE, EmptyDict, S(built.msg)).value)
             ELSE Return(built.value)

\* health_check returning the status reported by root().
health_check_running == Object(<< [k |-> "status", v |-> Scalar(Tok("str", "running"))] >>)

\* health_check()
health_check == Object(<< [k |-> "status", v |-> Scalar(Tok("str", "healthy"))] >>)

\* root()
root ==
    Object(<< [k |-> "service", v |-> Scalar(Tok("str", "Shopify MCP Server HTTP API"))],
              [k |-> "status", v |-> Scalar(Tok("str", "running"))],
              [k |-> "endpoints",
               v |-> Object(<< [k |-> "create_order", v |-> Scalar(Tok("str", "/api/orders/create"))],
                               [k |-> "get_order_status", v |-> Scalar(Tok("str", "/api/orders/status"))],
                               [k |-> "health", v |-> Scalar(Tok("str", "/health"))] >>)] >>)

\* HTTP responses.
NoResponse == [status |-> 0, kind |-> "none", body |-> EmptyDict]

\* The framework's answer to a body that fails validation.
ValidationRejection ==
    [status |-> 422, kind |-> "validation_error",
     body |-> Object(<< [k |-> "detail", v |-> Array(<<>>)] >>)]

\* The framework's answer for a handler's return value.
JsonResponse(kind, body) == [status |-> 200, kind |-> kind, body |-> body]

-----------------------------------------------------------------------------
(* Inputs: request bodies and outcomes of the delegated tools.             *)

List(items) == [t |-> "list", items |-> items]

NotAList(t) == [t |-> t, items |-> <<>>]

RawItem(variant_id, quantity, title, price) ==
    [variant_id |-> variant_id, quantity |-> quantity, title |-> title, price |-> price]

CreateBody(line_items, customer_email, financial_status, test) ==
    [line_items |-> line_items, customer_email |-> customer_email,
     financial_status |-> financial_status, test |-> test]

Widget == RawItem(I(12345), I(1), S("Widget"), F(999))

Plain == RawItem(I(67890), I(3), Absent, Absent)

Coercible == RawItem(I(12345), S("2"), Absent, I(5))

Negative == RawItem(I(12345), I(-1), S("Widget"), F(-100))

Mistyped == RawItem(I(12345), S("two"), S("Widget"), F(999))

Email == S("customer@example.com")

CreateBodies ==
    { CreateBody(List(<<Widget>>), Email, S("pending"), B(FALSE)),
      CreateBody(List(<<Plain, Widget>>), Email, Absent, Absent),
      CreateBody(List(<<Coercible>>), Email, Absent, Absent),
      CreateBody(List(<<>>), Email, Absent, Absent),
      CreateBody(List(<<Negative>>), Email, Absent, Absent),
      CreateBody(NotAList("absent"), Email, Absent, Absent),
      CreateBody(NotAList("str"), Email, Absent, Absent),
      CreateBody(List(<<Widget>>), Absent, Absent, Absent),
      CreateBody(List(<<Widget>>), I(5), Absent, Absent),
      CreateBody(List(<<Mistyped>>), Email, Absent, Absent) }

StatusBodies ==
    { [order_id |-> v] : v \in {I(999), S("999"), S("abc"), Null, Absent} }

LB == Tok("{", "")

RB == Tok("}", "")

LSq == Tok("[", "")

RSq == Tok("]", "")

Colon == Tok(":", "")

Comma == Tok(",", "")

Outcomes ==
    { Returned(Text(<<LB, Tok("str", "order"), Colon,
                      LB, Tok("str", "id"), Colon, Tok("num", "1"), RB, Comma,
                      Tok("str", "ok"), Colon, Tok("lit", "true"), RB>>)),
      Returned(Text(<<LB, RB>>)),
      Returned(Text(<<LSq, Tok("num", "1"), Comma, Tok("num", "2"), RSq>>)),
      Returned(Text(<<Tok("lit", "null")>>)),
      Returned(Text(<<LB, Tok("str", "order"), Colon>>)),
      Raised("Exception", "not found"),
      Raised("CancelledError", "") }

-----------------------------------------------------------------------------
(* The state machine.                                                      *)

Init ==
    /\ pc = [r \in Requests |-> "idle"]
    /\ endpoint = [r \in Requests |-> "none"]
    /\ raw = [r \in Requests |-> Absent]
    /\ request = [r \in Requests |-> Absent]
    /\ calls = [r \in Requests |-> <<>>]
    /\ outcome = [r \in Requests |-> Returned(Text(<<>>))]
    /\ response = [r \in Requests |-> NoResponse]

\* POST /api/orders/create arrives: the body is validated and, if valid,
\* the handler runs up to its await on create_order.
PostCreateOrder(r, body) ==
    /\ pc[r] = "idle"
    /\ endpoint' = [endpoint EXCEPT ![r] = "create"]
    /\ raw' = [raw EXCEPT ![r] = body]
    /\ LET req == CreateOrderRequest(body)
       IN  IF req.ok
           THEN /\ request' = [request EXCEPT ![r] = req.value]
                /\ calls' = [calls EXCEPT ![r] = Append(@, create_order_call(req.value))]
                /\ pc' = [pc EXCEPT ![r] = "awaiting"]
                /\ UNCHANGED response
           ELSE /\ response' = [response EXCEPT ![r] = ValidationRejection]
                /\ pc' = [pc EXCEPT ![r] = "rejected"]
                /\ UNCHANGED <<request, calls>>
    /\ UNCHANGED outcome

\* create_order completes and the suspended handler resumes.
CreateOrderCompletes(r, out) ==
    /\ pc[r] = "awaiting"
    /\ endpoint[r] = "create"
    /\ outcome' = [outcome EXCEPT ![r] = out]
    /\ LET h == create_order_endpoint(out)
       IN  IF h.kind = "return"
           THEN /\ response' = [response EXCEPT ![r] = JsonResponse("envelope", h.value)]
                /\ pc' = [pc EXCEPT ![r] = "done"]
           ELSE /\ pc' = [pc EXCEPT ![r] = "raised"]
                /\ UNCHANGED response
    /\ UNCHANGED <<endpoint, raw, request, calls>>

\* POST /api/orders/status arrives.
PostOrderStatus(r, body) ==
    /\ pc[r] = "idle"
    /\ endpoint' = [endpoint EXCEPT ![r] = "status"]
    /\ raw' = [raw EXCEPT ![r] = body]
    /\ LET req == GetOrderStatusRequest(body)
       IN  IF req.ok
           THEN /\ request' = [request EXCEPT ![r] = req.value]
                /\ calls' = [calls EXCEPT ![r] = Append(@, get_order_status_call(req.value))]
                /\ pc' = [pc EXCEPT ![r] = "awaiting"]
                /\ UNCHANGED response
           ELSE /\ response' = [response EXCEPT ![r] = ValidationRejection]
                /\ pc' = [pc EXCEPT ![r] = "rejected"]
                /\ UNCHANGED <<request, calls>>
    /\ UNCHANGED outcome

\* get_order_status completes and the suspended handler resumes.
OrderStatusCompletes(r, out) ==
    /\ pc[r] = "awaiting"
    /\ endpoint[r] = "status"
    /\ outcome' = [outcome EXCEPT ![r] = out]
    /\ LET h == get_order_status_endpoint(out)
       IN  IF h.kind = "return"
           THEN /\ response' = [response EXCEPT ![r] = JsonResponse("envelope", h.value)]
                /\ pc' = [pc EXCEPT ![r] = "done"]
           ELSE /\ pc' = [pc EXCEPT ![r] = "raised"]
                /\ UNCHANGED response
    /\ UNCHANGED <<endpoint, raw, request, calls>>

\* GET /health
GetHealth(r) ==
    /\ pc[r] = "idle"
    /\ endpoint' = [endpoint EXCEPT ![r] = "health"]
    /\ response' = [response EXCEPT ![r] = JsonResponse("json", health_check)]
    /\ pc' = [pc EXCEPT ![r] = "done"]
    /\ UNCHANGED <<raw, request, calls, outcome>>

\* GET /
GetRoot(r) ==
    /\ pc[r] = "idle"
    /\ endpoint' = [endpoint EXCEPT ![r] = "root"]
    /\ response' = [response EXCEPT ![r] = JsonResponse("json", root)]
    /\ pc' = [pc EXCEPT ![r] = "done"]
    /\ UNCHANGED <<raw, request, calls, outcome>>

Next ==
    \E r \in Requests :
        \/ \E body \in CreateBodies : PostCreateOrder(r, body)
        \/ \E out \in Outcomes : CreateOrderCompletes(r, out)
        \/ \E body \in StatusBodies : PostOrderStatus(r, body)
        \/ \E out \in Outcomes : OrderStatusCompletes(r, out)
        \/ GetHealth(r)
        \/ GetRoot(r)

Spec == Init /\ [][Next]_vars

-----------------------------------------------------------------------------
(* Properties.                                                             *)

Business(r) == endpoint[r] \in {"create", "status"}

\* The delegated call of request r has completed.
Completed(r) == Business(r) /\ pc[r] \in {"done", "raised"}

Envelope(success, data, error) == [success |-> success, data |-> data, error |-> error]

Keys(d) == {d[i].k : i \in 1..Len(d)}

Get(d, key) == d[CHOOSE i \in 1..Len(d) : d[i].k = key].v

HealthyBody ==
    [t |-> "object", s |-> "",
     items |-> << [k |-> "status", v |-> [t |-> "str", s |-> "healthy", items |-> <<>>]] >>]

\* C1 (as stated): whenever the delegated call of a business endpoint
\* returns a well-formed JSON text, whatever value it encodes, the response
\* is the envelope success=true, error=null, data = the parsed value.
C1_AnyJsonValueSucceeds ==
    \A r \in Requests :
        (Completed(r) /\ outcome[r].kind = "return" /\ json_loads(outcome[r].value).ok)
        => /\ pc[r] = "done"
           /\ response[r].kind = "envelope"
           /\ response[r].body = Envelope(TRUE, json_loads(outcome[r].value).value, Null)

\* C1 (amended): whenever the delegated call of a business endpoint returns
\* a well-formed JSON text that encodes an object, the response is HTTP 200
\* with the envelope success=true, error=null, data = the parsed object.
C1_JsonObjectSucceeds ==
    \A r \in Requests :
        (/\ Completed(r)
         /\ outcome[r].kind = "return"
         /\ json_loads(outcome[r].value).ok
         /\ json_loads(outcome[r].value).value.t = "object")
        => /\ pc[r] = "done"
           /\ response[r].status = 200
           /\ response[r].kind = "envelope"
           /\ response[r].body = Envelope(TRUE, json_loads(outcome[r].value).value, Null)

\* Both endpoints have answered success=true with the non-empty object the
\* delegated call returned.
C1_Witness ==
    \E r, q \in Requests :
        /\ endpoint[r] = "create" /\ endpoint[q] = "status"
        /\ pc[r] = "done" /\ pc[q] = "done"
        /\ \A x \in {r, q} :
              /\ outcome[x].kind = "return"
              /\ response[x].body.success
              /\ Keys(response[x].body.data.items) = {"order", "ok"}
              /\ Get(Get(response[x].body.data.items, "order").items, "id").s = "1"

\* C2: whenever the delegated call of a business endpoint raises an
\* Exception e, or json.loads of its result raises, the response is HTTP 200
\* with the envelope success=false, data={}, error=str(e).
C2_FailureEnvelope ==
    \A r \in Requests :
        /\ (Completed(r) /\ outcome[r].kind = "raise" /\ outcome[r].cls = "Exception")
           => /\ pc[r] = "done"
              /\ response[r].status = 200
              /\ response[r].body = Envelope(FALSE, EmptyDict, S(outcome[r].msg))
        /\ (Completed(r) /\ outcome[r].kind = "return" /\ ~json_loads(outcome[r].value).ok)
           => /\ pc[r] = "done"
              /\ response[r].status = 200
              /\ response[r].body =
                    Envelope(FALSE, EmptyDict, S(json_loads(outcome[r].value).msg))

\* POST /api/orders/status for order 999 where get_order_status raised
\* "not found" was answered 200 {success: false, data: {}, error: "not found"}.
C2_Witness ==
    \E r \in Requests :
        /\ endpoint[r] = "status"
        /\ raw[r].order_id = I(999)
        /\ outcome[r] = Raised("Exception", "not found")
        /\ response[r] =
              [status |-> 200, kind |-> "envelope",
               body |-> [success |-> FALSE, data |-> Object(<<>>), error |-> S("not found")]]

\* A raw item with a key whose value is not of the declared type.
ItemMistyped(item) ==
    \/ item.variant_id.t # "int"
    \/ item.quantity.t # "int"
    \/ item.title.t \notin {"str", "absent"}
    \/ item.price.t \notin {"float", "absent"}

\* A raw value that can be read as an int: an int or a numeric string.
IntLike(v) == v.t = "int" \/ (v.t = "str" /\ v.s \in {"2", "999"})

\* A raw item with a key whose value cannot be converted to the declared
\* type.
ItemUnconvertible(item) ==
    \/ ~IntLike(item.variant_id)
    \/ ~IntLike(item.quantity)
    \/ item.title.t \notin {"str", "absent"}
    \/ ~(item.price.t \in {"float", "int", "absent"} \/ IntLike(item.price))

Rejected(r) ==
    /\ pc[r] = "rejected"
    /\ calls[r] = <<>>
    /\ response[r].kind = "validation_error"
    /\ response[r].status = 422

\* C3 (as stated): a create request without line_items or customer_email,
\* or with a field that is not of the declared type, and a status request
\* whose order_id is missing or not an integer, is rejected by validation:
\* no delegated call, no envelope.
C3_NonIntegerRejected ==
    \A r \in Requests :
        /\ (/\ endpoint[r] = "create"
            /\ \/ raw[r].line_items.t # "list"
               \/ raw[r].customer_email.t # "str"
               \/ raw[r].financial_status.t \notin {"str", "absent"}
               \/ raw[r].test.t \notin {"bool", "absent"}
               \/ \E i \in 1..Len(raw[r].line_items.items) :
                     ItemMistyped(raw[r].line_items.items[i]))
           => Rejected(r)
        /\ (endpoint[r] = "status" /\ raw[r].order_id.t # "int") => Rejected(r)

\* C3 (amended): a create request without line_items or customer_email, or
\* with a field whose value cannot be converted to the declared type, and a
\* status request whose order_id is missing or is neither an integer nor a
\* numeric string, is rejected by validation: no delegated call, no
\* envelope.
C3_UnconvertibleRejected ==
    \A r \in Requests :
        /\ (/\ endpoint[r] = "create"
            /\ \/ raw[r].line_items.t # "list"
               \/ raw[r].customer_email.t # "str"
               \/ raw[r].financial_status.t \notin {"str", "absent"}
               \/ raw[r].test.t \notin {"bool", "int", "absent"}
               \/ \E i \in 1..Len(raw[r].line_items.items) :
                     ItemUnconvertible(raw[r].line_items.items[i]))
           => Rejected(r)
        /\ (endpoint[r] = "status" /\ ~IntLike(raw[r].order_id)) => Rejected(r)

\* A create request without customer_email and a status request without
\* order_id have both been rejected.
C3_Witness ==
    \E r, q \in Requests :
        /\ endpoint[r] = "create" /\ raw[r].customer_email = Absent /\ Rejected(r)
        /\ endpoint[q] = "status" /\ raw[q].order_id = Absent /\ Rejected(q)

\* C4: for every valid create request, create_order is invoked with as many
\* line items as the request has, in the same order, the i-th being a dict
\* of exactly variant_id, quantity, title and price with the i-th item's
\* values (a value sent with the declared type is forwarded as sent, an
\* omitted title or price as "Product" or 0.0), and with the request's
\* customer_email, financial_status (default "paid") and test (default
\* true).
C4_LineItemsForwarded ==
    \A r \in Requests :
        (endpoint[r] = "create" /\ pc[r] \in {"awaiting", "done", "raised"})
        => /\ Len(calls[r]) >= 1
           /\ LET call == calls[r][1]
                  sent == raw[r].line_items.items
              IN  /\ call.fn = "create_order"
                  /\ Len(call.line_items) = Len(request[r].line_items)
                  /\ Len(call.line_items) = Len(sent)
                  /\ \A i \in 1..Len(call.line_items) :
                        LET d == call.line_items[i]
                            item == request[r].line_items[i]
                        IN  /\ Len(d) = 4
                            /\ Keys(d) = {"variant_id", "quantity", "title", "price"}
                            /\ Get(d, "variant_id") = item.variant_id
                            /\ Get(d, "quantity") = item.quantity
                            /\ Get(d, "title") = item.title
                            /\ Get(d, "price") = item.price
                            /\ sent[i].variant_id.t = "int"
                               => Get(d, "variant_id") = sent[i].variant_id
                            /\ sent[i].quantity.t = "int"
                               => Get(d, "quantity") = sent[i].quantity
                            /\ sent[i].title.t = "str" => Get(d, "title") = sent[i].title
                            /\ sent[i].title = Absent => Get(d, "title") = S("Product")
                            /\ sent[i].price.t = "float" => Get(d, "price") = sent[i].price
                            /\ sent[i].price = Absent => Get(d, "price") = F(0)
                  /\ call.customer_email = raw[r].customer_email
                  /\ call.financial_status =
                        IF raw[r].financial_status = Absent THEN S("paid")
                        ELSE raw[r].financial_status
                  /\ call.test = IF raw[r].test = Absent THEN B(TRUE) ELSE raw[r].test

\* create_order has been invoked for a request with two line items, the
\* first without title and price, the second {12345, 1, "Widget", 9.99}.
C4_Witness ==
    \E r \in Requests :
        /\ endpoint[r] = "create"
        /\ pc[r] = "awaiting"
        /\ raw[r].line_items.items = <<Plain, Widget>>
        /\ Len(calls[r][1].line_items) = 2
        /\ Get(calls[r][1].line_items[1], "title") = S("Product")
        /\ Get(calls[r][1].line_items[1], "price") = F(0)
        /\ Get(calls[r][1].line_items[2], "variant_id") = I(12345)
        /\ Get(calls[r][1].line_items[2], "quantity") = I(1)
        /\ Get(calls[r][1].line_items[2], "title") = S("Widget")
        /\ Get(calls[r][1].line_items[2], "price") = F(999)

\* C5 (as stated): every envelope has the fields success, data and error;
\* success=true implies data is a non-empty mapping and error is null;
\* success=false implies error is non-null and data is the empty mapping.
C5_SuccessDataNonEmpty ==
    \A r \in Requests :
        response[r].kind = "envelope"
        => LET e == response[r].body
           IN  /\ DOMAIN e = {"success", "data", "error"}
               /\ e.success => (e.data.t = "object" /\ Len(e.data.items) > 0 /\ e.error = Null)
               /\ ~e.success => (e.error.t = "str" /\ e.data = EmptyDict)

\* C5 (amended): every envelope has the fields success, data and error;
\* success=true implies data is a mapping, possibly empty, and error is
\* null; success=false implies error is a string and data is the empty
\* mapping.
C5_EnvelopeShape ==
    \A r \in Requests :
        response[r].kind = "envelope"
        => LET e == response[r].body
           IN  /\ DOMAIN e = {"success", "data", "error"}
               /\ e.success => (e.data.t = "object" /\ e.error = Null)
               /\ ~e.success => (e.error.t = "str" /\ e.data = EmptyDict)

\* One request was answered success=true with data={} and another
\* success=false.
C5_Witness ==
    \E r, q \in Requests :
        /\ response[r].kind = "envelope" /\ response[q].kind = "envelope"
        /\ response[r].body.success
        /\ response[r].body.data = EmptyDict
        /\ outcome[r] = Returned(Text(<<LB, RB>>))
        /\ ~response[q].body.success

\* C6 (as stated): create_order is only invoked with a non-empty line_items
\* in which every quantity is a positive integer and every price is
\* non-negative.
C6_PositiveQuantities ==
    \A r \in Requests :
        (endpoint[r] = "create" /\ calls[r] # <<>>)
        => LET items == calls[r][1].line_items
           IN  /\ Len(items) > 0
               /\ \A i \in 1..Len(items) :
                     /\ Get(items[i], "quantity").t = "int"
                     /\ Get(items[i], "quantity").n > 0
                     /\ Get(items[i], "price").n >= 0

\* C6 (amended): create_order is only invoked with a line_items, possibly
\* empty, in which every variant_id and quantity is an integer, every title
\* a string and every price a float, of any sign; a request with a line
\* item whose quantity is not convertible to an integer never reaches
\* create_order.
C6_TypedLineItems ==
    \A r \in Requests :
        /\ (endpoint[r] = "create" /\ calls[r] # <<>>)
           => LET items == calls[r][1].line_items
              IN  \A i \in 1..Len(items) :
                     /\ Get(items[i], "variant_id").t = "int"
                     /\ Get(items[i], "quantity").t = "int"
                     /\ Get(items[i], "title").t = "str"
                     /\ Get(items[i], "price").t = "float"
        /\ (/\ endpoint[r] = "create"
            /\ \E i \in 1..Len(raw[r].line_items.items) :
                  ~IntLike(raw[r].line_items.items[i].quantity))
           => calls[r] = <<>>

\* create_order has been invoked with a line item of quantity -1 and price
\* -1.00, and a request whose quantity is "two" has been turned away.
C6_Witness ==
    \E r, q \in Requests :
        /\ endpoint[r] = "create"
        /\ calls[r] # <<>>
        /\ Len(calls[r][1].line_items) = 1
        /\ Get(calls[r][1].line_items[1], "quantity") = I(-1)
        /\ Get(calls[r][1].line_items[1], "price") = F(-100)
        /\ endpoint[q] = "create"
        /\ raw[q].line_items.items = <<Mistyped>>
        /\ pc[q] = "rejected"

\* C7: GET /health is always answered 200 {"status": "healthy"}, whatever
\* the other requests are doing, and makes no delegated call.
C7_HealthAlwaysHealthy ==
    \A r \in Requests :
        endpoint[r] = "health"
        => /\ pc[r] = "done"
           /\ response[r].status = 200
           /\ response[r].body = HealthyBody
           /\ calls[r] = <<>>

\* GET /health has been answered while another request is suspended on its
\* delegated call.
C7_Witness ==
    \E r, q \in Requests :
        /\ endpoint[r] = "health"
        /\ response[r].body = HealthyBody
        /\ Business(q)
        /\ pc[q] = "awaiting"

\* C8 (as stated): every validated business request whose delegated call
\* completes, by returning anything or by raising anything, ends with an
\* HTTP 200 envelope; the handler never raises.
C8_NothingPropagates ==
    \A r \in Requests :
        Completed(r)
        => /\ pc[r] = "done"
           /\ response[r].status = 200
           /\ response[r].kind = "envelope"

\* C8 (amended): every validated business request whose delegated call
\* completes, by returning anything or by raising an exception derived
\* from Exception, ends with an HTTP 200 envelope; the handler never
\* raises.  This includes a failure while building the success envelope.
C8_ExceptionsBecomeEnvelopes ==
    \A r \in Requests :
        (Completed(r) /\ (outcome[r].kind = "return" \/ outcome[r].cls = "Exception"))
        => /\ pc[r] = "done"
           /\ response[r].status = 200
           /\ response[r].kind = "envelope"
           /\ DOMAIN response[r].body = {"success", "data", "error"}

\* The delegated call returned a JSON array, OrderResponse(success=True,
\* data=[...]) raised, and the request was answered with a failure
\* envelope.
C8_Witness ==
    \E r \in Requests :
        /\ endpoint[r] = "create"
        /\ pc[r] = "done"
        /\ outcome[r].kind = "return"
        /\ json_loads(outcome[r].value).value.t = "array"
        /\ response[r].status = 200
        /\ ~response[r].body.success
        /\ response[r].body.error = S("1 validation error for OrderResponse")

\* C9: a validated business request has made exactly one delegated call
\* (create_order for create, get_order_status with the request's order_id
\* for status) from the moment its handler awaits, hence before its
\* response and also after a failure; a request that was not validated has
\* made none.
C9_ExactlyOneInvocation ==
    \A r \in Requests :
        /\ (Business(r) /\ pc[r] \in {"awaiting", "done", "raised"})
           => /\ Len(calls[r]) = 1
              /\ endpoint[r] = "create" => calls[r][1].fn = "create_order"
              /\ endpoint[r] = "status"
                 => /\ calls[r][1].fn = "get_order_status"
                    /\ calls[r][1].order_id = request[r].order_id
                    /\ raw[r].order_id.t = "int" => calls[r][1].order_id = raw[r].order_id
        /\ pc[r] \in {"idle", "rejected"} => calls[r] = <<>>
        /\ ~Business(r) => calls[r] = <<>>
        /\ response[r].kind = "envelope" => Len(calls[r]) = 1

\* get_order_status(999) raised "not found", the failure envelope was
\* returned, and it had been called once.
C9_Witness ==
    \E r \in Requests :
        /\ endpoint[r] = "status"
        /\ pc[r] = "done"
        /\ outcome[r].kind = "raise"
        /\ ~response[r].body.success
        /\ calls[r] = <<[fn |-> "get_order_status", order_id |-> I(999)]>>

\* Two requests to the same endpoint with the same body whose delegated
\* calls ended the same way are in the same state.
SameInputsSameResult ==
    \A r, q \in Requests :
        (/\ Completed(r) /\ Completed(q)
         /\ endpoint[r] = endpoint[q]
         /\ raw[r] = raw[q]
         /\ outcome[r] = outcome[q])
        => /\ pc[r] = pc[q]
           /\ response[r] = response[q]
           /\ calls[r] = calls[q]

\* An envelope reports success exactly when the request's own delegated
\* call returned a JSON object, and otherwise carries the request's own
\* error.
EnvelopeFollowsOwnOutcome ==
    \A r \in Requests :
        response[r].kind = "envelope"
        => LET own == outcome[r]
               parsed == json_loads(own.value)
           IN  /\ response[r].body.success
                  <=> (own.kind = "return" /\ parsed.ok /\ parsed.value.t = "object")
               /\ response[r].body.success => response[r].body.data = parsed.value
               /\ own.kind = "raise" => response[r].body.error = S(own.msg)

\* A step of one request leaves every other request as it was.
OthersUntouched ==
    \A r \in Requests :
        pc'[r] # pc[r]
        => \A q \in Requests \ {r} :
              /\ pc'[q] = pc[q]
              /\ response'[q] = response[q]
              /\ calls'[q] = calls[q]
              /\ request'[q] = request[q]

\* C10: under every interleaving of in-flight requests, each request's
\* response is a function of its own body and of the outcome of its own
\* delegated call, and no step of one request changes anything of another.
C10_RequestsIndependent ==
    /\ []SameInputsSameResult
    /\ []EnvelopeFollowsOwnOutcome
    /\ [][OthersUntouched]_vars

\* One request has been answered with a failure while another, sent to the
\* same endpoint with the same body, is still suspended on its call.
C10_Witness ==
    \E r, q \in Requests :
        /\ r # q
        /\ endpoint[r] = "create" /\ endpoint[q] = "create"
        /\ raw[r] = raw[q]
        /\ pc[r] = "done"
        /\ ~response[r].body.success
        /\ pc[q] = "awaiting"
        /\ response[q] = NoResponse

====
